---- MODULE Spec2Model ----
(***************************************************************************)
(* Model of qtpyvcp/widgets/input_widgets/tool_table.py: the tool table    *)
(* model (ToolModel), its item delegate (ItemDelegate) and the table view  *)
(* (ToolTable) that drives them.                                           *)
(*                                                                         *)
(* Rows and columns are numbered from 0 as in the source; a Python list is *)
(* a TLA+ sequence, so list[i] is written list[i + 1].                     *)
(***************************************************************************)
EXTENDS Integers, Sequences, FiniteSets, TLC

\* ---------------------------------------------------------------- bounds
MaxRows == 3        \* longest tool_list explored
MaxLoads == 1       \* most successful load_tool_table() calls explored
MaxEdits == 1       \* most cell writes (setData) explored

\* ------------------------------------------------------ values of a cell
\* A cell holds a Python value: None, an int, a float or a str.  Floats are
\* kept in units of 1/10000 (the resolution of the float editor), strings
\* as a number naming the text: 0 is the empty string "", every other
\* number a non-empty, non-numeric text.
None == [k |-> "none", v |-> 0]
IntV(n) == [k |-> "int", v |-> n]
FloatV(n) == [k |-> "float", v |-> n]
StrV(n) == [k |-> "str", v |-> n]

FloatUnit == 10000

\* Number of columns of the table: len(table_header), one label per column
\* of the tooltable plugin.  The plugin is outside this file; the table has
\* the six columns T, P, Z, D, R, comment that _data() serves.
ColumnCount == 6

\* Column kinds served by _data() under Qt.EditRole: int() for columns 0-1,
\* float() for columns 2-4, str() for column 5.
KindOf(column) ==
    IF column \in {0, 1} THEN "int"
    ELSE IF column \in {2, 3, 4} THEN "float"
    ELSE "str"

\* tool_table.newTool(tnum=position): a default row for a new tool.
NewDefault(tnum) ==
    <<IntV(tnum), IntV(tnum), FloatV(0), FloatV(0), FloatV(0), StrV(0)>>

\* tool_table.iterTools(): the rows of the tool table file, one list per tool.
SourceRow(t, comment) ==
    <<IntV(t), IntV(t), FloatV(0), FloatV(5000), FloatV(0), StrV(comment)>>

\* The tables iterTools() can yield: one tool, or two tools of which the
\* second carries a comment.
Sources == {<<SourceRow(1, 0)>>, <<SourceRow(1, 0), SourceRow(2, 1)>>}

\* ------------------------------------------------------- Python lists
\* list.insert(i, x): a negative i counts from the end, and an index
\* outside the list is clamped to its nearest end.
ListInsert(list, i, x) ==
    LET n == Len(list)
        j == IF i < 0 THEN (IF i + n < 0 THEN 0 ELSE i + n)
             ELSE IF i > n THEN n ELSE i
    IN SubSeq(list, 1, j) \o <<x>> \o SubSeq(list, j + 1, n)

\* list.pop() that ignores its index and removes the last element.
ListPopLast(list, i) == SubSeq(list, 1, Len(list) - 1)

\* list.pop(i): a negative i counts from the end; IndexError outside.
ListPopIndex(list, i) == IF i < 0 THEN i + Len(list) ELSE i
ListPopFails(list, i) ==
    ListPopIndex(list, i) < 0 \/ ListPopIndex(list, i) >= Len(list)
ListPop(list, i) ==
    LET j == ListPopIndex(list, i)
    IN SubSeq(list, 1, j) \o SubSeq(list, j + 2, Len(list))

\* ------------------------------------------------------------- state
VARIABLES
    tool_list,          \* ToolModel.tool_list
    childCount,         \* len(ToolModel.rootItem.childItems)
    tool_table_file,    \* ToolTable.tool_table_file: "none" or "path"
    tool_table_loaded,  \* ToolTable.tool_table_loaded
    edits,              \* cell writes so far
    last,               \* the last call and its inputs
    pre,                \* tool_list when the last call began
    notes,              \* notifications the last call emitted, in order
    err,                \* exception the last call raised, or "none"
    io                  \* dialog, write(), apply() of the last call

vars == <<tool_list, childCount, tool_table_file, tool_table_loaded,
          edits, last, pre, notes, err, io>>

\* A notification: its kind, the rows first..last it names, and the number
\* of rows tool_list held at the moment it was emitted.
Note(kind, first, lastRow, size) ==
    [kind |-> kind, first |-> first, last |-> lastRow, size |-> size]

Call(op, row, arg, ans, rec, val) ==
    [op |-> op, row |-> row, arg |-> arg, ans |-> ans, rec |-> rec, val |-> val]

\* No call is running: the event loop is idle.
NoCall == Call("idle", 0, 0, FALSE, <<>>, None)

NoIO == [asked |-> FALSE, built |-> FALSE, table |-> <<>>,
         write |-> "not_called", apply |-> FALSE]

\* What a subscriber that counts rows makes of the notifications of one call:
\* +1 on RowsInserted, -1 on RowsRemoved; on Reset it re-reads the size.
RECURSIVE Track(_, _)
Track(count, ns) ==
    IF ns = <<>> THEN count
    ELSE LET n == Head(ns)
         IN Track(IF n.kind = "RowsInserted" THEN count + 1
                  ELSE IF n.kind = "RowsRemoved" THEN count - 1
                  ELSE IF n.kind = "Reset" THEN n.size
                  ELSE count,
                  Tail(ns))

Idle == last = NoCall

\* ToolModel.__init__ has run; ToolTable.__init__ is about to load:
\* tool_table_loaded = False, and no view is attached yet.
Init ==
    /\ tool_list = <<>>
    /\ childCount = 0
    /\ tool_table_file \in {"none", "path"}
    /\ tool_table_loaded = FALSE
    /\ edits = 0
    /\ last = NoCall
    /\ pre = <<>>
    /\ notes = <<>>
    /\ err = "none"
    /\ io = NoIO

\* ------------------------------------------------------ ToolModel
\* newTool() without its `if position < 0` test.
ClampPositionDropped(position) == position

\* newTool(): position = row + dir; if position < 0: position = 0
ClampPosition(position) == IF position < 0 THEN 0 ELSE position

\* newTool() that appends the new record, whatever the position.
NewToolListAppended(list, row, dir) ==
    Append(list, NewDefault(ClampPosition(row + dir)))

\* newTool(row, dir): the list afterwards, the record inserted and the
\* notifications of beginInsertRows / endInsertRows.
NewToolRec(row, dir) == NewDefault(ClampPosition(row + dir))
NewToolList(list, row, dir) ==
    ListInsert(list, ClampPosition(row + dir), NewToolRec(row, dir))
NewToolNotes(list, row, dir) ==
    LET position == ClampPosition(row + dir)
    IN <<Note("RowsAboutToBeInserted", position, position, Len(list)),
         Note("RowsInserted", position, position, Len(list) + 1)>>

\* removeTool(row): beginRemoveRows, tool_list.pop(row), endRemoveRows.
\* When pop raises, endRemoveRows is never reached.
RemoveToolFails(list, row) == ListPopFails(list, row)
RemoveToolList(list, row) ==
    IF RemoveToolFails(list, row) THEN list ELSE ListPop(list, row)
RemoveToolNotes(list, row) ==
    IF RemoveToolFails(list, row)
    THEN <<Note("RowsAboutToBeRemoved", row, row, Len(list))>>
    ELSE <<Note("RowsAboutToBeRemoved", row, row, Len(list)),
           Note("RowsRemoved", row, row, Len(list) - 1)>>

\* clearTable(): beginResetModel, del tool_list[:], endResetModel.  The
\* Reset is delivered by endResetModel, when the list is already empty.
ClearTableNotes(list) ==
    <<Note("AboutToReset", 0, 0, Len(list)), Note("Reset", 0, 0, 0)>>

\* A call of ToolModel.newTool(row, dir).
NewTool(row, dir) ==
    /\ Idle
    /\ tool_table_loaded
    /\ Len(tool_list) < MaxRows
    /\ tool_list' = NewToolList(tool_list, row, dir)
    /\ notes' = NewToolNotes(tool_list, row, dir)
    /\ last' = Call("newTool", row, dir, FALSE, NewToolRec(row, dir), None)
    /\ pre' = tool_list
    /\ err' = "none"
    /\ io' = NoIO
    /\ UNCHANGED <<childCount, tool_table_file, tool_table_loaded, edits>>

\* A call of ToolModel.removeTool(row).
RemoveTool(row) ==
    /\ Idle
    /\ tool_table_loaded
    /\ tool_list' = RemoveToolList(tool_list, row)
    /\ notes' = RemoveToolNotes(tool_list, row)
    /\ err' = IF RemoveToolFails(tool_list, row) THEN "IndexError" ELSE "none"
    /\ last' = Call("removeTool", row, 0, FALSE, <<>>, None)
    /\ pre' = tool_list
    /\ io' = NoIO
    /\ UNCHANGED <<childCount, tool_table_file, tool_table_loaded, edits>>

\* A call of ToolModel.clearTable().
ClearTable ==
    /\ Idle
    /\ tool_table_loaded
    /\ tool_list' = <<>>
    /\ notes' = ClearTableNotes(tool_list)
    /\ err' = "none"
    /\ last' = Call("clearTable", 0, 0, FALSE, <<>>, None)
    /\ pre' = tool_list
    /\ io' = NoIO
    /\ UNCHANGED <<childCount, tool_table_file, tool_table_loaded, edits>>

\* load_tool_table() that loses the first row iterTools() yields.
LoadToolTableListDropped(source) ==
    IF source = <<>> THEN source ELSE Tail(source)

\* load_tool_table(): del tool_list[:], then append every row iterTools()
\* yields, and one more child item under rootItem.  No notification.
LoadToolTableList(source) == source

\* save_tool_table(): tool_header names the keys of the saved columns.
tool_header == <<"T", "P", "Z", "D", "R">>

EmptyDict == [key \in {} |-> None]
DictSet(dict, key, value) ==
    [x \in (DOMAIN dict) \cup {key} |-> IF x = key THEN value ELSE dict[x]]

\* `item is not None and item != ""`
NotEmpty(item) == item # None /\ item # StrV(0)

\* The inner loop of save_tool_table() from column col_index on: the dict
\* of one row, or an IndexError when tool_header has no entry for a column
\* that holds something.
RECURSIVE SaveRow(_, _, _)
SaveRow(rec, col_index, tool) ==
    IF col_index >= ColumnCount THEN [raised |-> FALSE, tool |-> tool]
    ELSE LET item == rec[col_index + 1]
         IN IF NotEmpty(item)
            THEN IF col_index >= Len(tool_header)
                 THEN [raised |-> TRUE, tool |-> tool]
                 ELSE SaveRow(rec, col_index + 1,
                              DictSet(tool, tool_header[col_index + 1], item))
            ELSE SaveRow(rec, col_index + 1, tool)

\* The outer loop of save_tool_table() from row row_index on.
RECURSIVE SaveRows(_, _, _)
SaveRows(list, row_index, tool_table) ==
    IF row_index >= Len(list) THEN [raised |-> FALSE, table |-> tool_table]
    ELSE LET r == SaveRow(list[row_index + 1], 0, EmptyDict)
         IN IF r.raised THEN [raised |-> TRUE, table |-> tool_table]
            ELSE SaveRows(list, row_index + 1, Append(tool_table, r.tool))

\* save_tool_table() that empties the list it has serialised.
SaveToolListCleared(list) == <<>>

\* save_tool_table(): tool_list is read through tool_list[row_index][
\* col_index] and never assigned.
SaveToolList(list) == list

\* ------------------------------------------------------ ToolTable
\* loadToolTable() that goes on whatever the dialog answers.
LoadNeverDeclined(loaded, ans) == FALSE

\* loadToolTable(): `if self.tool_table_loaded and not self.ask_dialog(..)`
LoadDeclined(loaded, ans) == loaded /\ ~ans

\* loadToolTable() without its os.path.exists() test.
SourceAvailableUnchecked(fn, exists) == fn # "none"

\* loadToolTable(): `fn is None` and `not os.path.exists(fn)` both return.
SourceAvailable(fn, exists) == fn # "none" /\ exists

\* loadToolTable() past its early returns: clearTable(), load_tool_table().
LoadRuns(loaded, ans, fn, exists) ==
    ~LoadDeclined(loaded, ans) /\ SourceAvailable(fn, exists)

LoadBody(op, ans, exists, source) ==
    /\ LoadRuns(tool_table_loaded, ans, tool_table_file, exists)
          => childCount < MaxLoads
    /\ IF LoadRuns(tool_table_loaded, ans, tool_table_file, exists)
       THEN /\ tool_list' = LoadToolTableList(source)
            /\ notes' = ClearTableNotes(tool_list)
            /\ childCount' = childCount + 1
       ELSE /\ tool_list' = tool_list
            /\ notes' = <<>>
            /\ childCount' = childCount
    /\ last' = Call(op, 0, IF exists THEN 1 ELSE 0, ans, source, None)
    /\ pre' = tool_list
    /\ err' = "none"
    /\ io' = [NoIO EXCEPT !.asked = tool_table_loaded]
    /\ UNCHANGED <<tool_table_file, edits>>

\* ToolTable.__init__: the first loadToolTable(), then tool_table_loaded =
\* True; the proxy model is attached afterwards and reads the row count.
Construct(exists, source) ==
    /\ Idle
    /\ ~tool_table_loaded
    /\ LoadBody("__init__", FALSE, exists, source)
    /\ tool_table_loaded' = TRUE

\* The loadToolTable() slot, once the widget is built.
LoadToolTable(ans, exists, source) ==
    /\ Idle
    /\ tool_table_loaded
    /\ LoadBody("loadToolTable", ans, exists, source)
    /\ UNCHANGED tool_table_loaded

\* What the plugin's saveToolTable() does with the table: it writes it
\* ("ok"), it returns without having written it ("failed"), or it raises.
WriteOutcomes == {"ok", "failed", "raised"}

\* The saveToolTable() slot: save_tool_table(), then cmd.load_tool_table().
SaveToolTable(ans, outcome) ==
    /\ Idle
    /\ tool_table_loaded
    /\ LET built == SaveRows(tool_list, 0, <<>>)
       IN IF ~ans
          THEN /\ io' = [NoIO EXCEPT !.asked = TRUE]
               /\ err' = "none"
          ELSE IF built.raised
          THEN /\ io' = [NoIO EXCEPT !.asked = TRUE]
               /\ err' = "IndexError"
          ELSE /\ io' = [asked |-> TRUE, built |-> TRUE, table |-> built.table,
                         write |-> outcome, apply |-> outcome # "raised"]
               /\ err' = IF outcome = "raised" THEN "IOError" ELSE "none"
    /\ tool_list' = IF ans THEN SaveToolList(tool_list) ELSE tool_list
    /\ last' = Call("saveToolTable", 0, 0, ans, <<>>, None)
    /\ pre' = tool_list
    /\ notes' = <<>>
    /\ UNCHANGED <<childCount, tool_table_file, tool_table_loaded, edits>>

\* insertToolAbove(): newTool(selected, -1)
InsertToolAbove(selected) ==
    /\ Idle
    /\ tool_table_loaded
    /\ Len(tool_list) < MaxRows
    /\ tool_list' = NewToolList(tool_list, selected, -1)
    /\ notes' = NewToolNotes(tool_list, selected, -1)
    /\ last' = Call("insertToolAbove", selected, -1, FALSE,
                    NewToolRec(selected, -1), None)
    /\ pre' = tool_list
    /\ err' = "none"
    /\ io' = NoIO
    /\ UNCHANGED <<childCount, tool_table_file, tool_table_loaded, edits>>

\* insertToolBelow(): newTool(selected, +1)
InsertToolBelow(selected) ==
    /\ Idle
    /\ tool_table_loaded
    /\ Len(tool_list) < MaxRows
    /\ tool_list' = NewToolList(tool_list, selected, 1)
    /\ notes' = NewToolNotes(tool_list, selected, 1)
    /\ last' = Call("insertToolBelow", selected, 1, FALSE,
                    NewToolRec(selected, 1), None)
    /\ pre' = tool_list
    /\ err' = "none"
    /\ io' = NoIO
    /\ UNCHANGED <<childCount, tool_table_file, tool_table_loaded, edits>>

\* deleteSelectedTool() without its `current_row == -1` return.
DeleteRunsUnguarded(current_row, ans) == ans

\* deleteSelectedTool(): nothing when no row is selected or the dialog is
\* declined, removeTool(current_row) otherwise.
DeleteRuns(current_row, ans) == current_row # -1 /\ ans

DeleteSelectedTool(current_row, ans) ==
    /\ Idle
    /\ tool_table_loaded
    /\ IF DeleteRuns(current_row, ans)
       THEN /\ tool_list' = RemoveToolList(tool_list, current_row)
            /\ notes' = RemoveToolNotes(tool_list, current_row)
            /\ err' = IF RemoveToolFails(tool_list, current_row)
                      THEN "IndexError" ELSE "none"
       ELSE /\ tool_list' = tool_list
            /\ notes' = <<>>
            /\ err' = "none"
    /\ last' = Call("deleteSelectedTool", current_row, 0, ans, <<>>, None)
    /\ pre' = tool_list
    /\ io' = [NoIO EXCEPT !.asked = (current_row # -1)]
    /\ UNCHANGED <<childCount, tool_table_file, tool_table_loaded, edits>>

\* removeAllTools() whose loop lacks reversed(): removeTool(j) for j from 0
\* up to i.
RECURSIVE RemoveAllUp(_, _, _, _)
RemoveAllUp(list, j, i, ns) ==
    IF j > i THEN [list |-> list, notes |-> ns, err |-> "none"]
    ELSE IF RemoveToolFails(list, j)
    THEN [list |-> list, notes |-> ns \o RemoveToolNotes(list, j),
          err |-> "IndexError"]
    ELSE RemoveAllUp(RemoveToolList(list, j), j + 1, i,
                     ns \o RemoveToolNotes(list, j))

RemoveAllLoopForward(list, i, ns) == RemoveAllUp(list, 0, i, ns)

\* removeAllTools(): `for i in reversed(range(rowCount())): removeTool(i)`,
\* from row i down; an exception of removeTool ends the loop.
RECURSIVE RemoveAllLoop(_, _, _)
RemoveAllLoop(list, i, ns) ==
    IF i < 0 THEN [list |-> list, notes |-> ns, err |-> "none"]
    ELSE IF RemoveToolFails(list, i)
    THEN [list |-> list, notes |-> ns \o RemoveToolNotes(list, i),
          err |-> "IndexError"]
    ELSE RemoveAllLoop(RemoveToolList(list, i), i - 1,
                       ns \o RemoveToolNotes(list, i))

\* removeAllTools(confirm): `if confirm: if not ask_dialog(..): return`
RemoveAllRuns(confirm, ans) == ~confirm \/ ans

RemoveAllTools(confirm, ans) ==
    /\ Idle
    /\ tool_table_loaded
    /\ LET r == IF RemoveAllRuns(confirm, ans)
                THEN RemoveAllLoop(tool_list, Len(tool_list) - 1, <<>>)
                ELSE [list |-> tool_list, notes |-> <<>>, err |-> "none"]
       IN /\ tool_list' = r.list
          /\ notes' = r.notes
          /\ err' = r.err
    /\ last' = Call("removeAllTools", 0, IF confirm THEN 1 ELSE 0, ans, <<>>, None)
    /\ pre' = tool_list
    /\ io' = [NoIO EXCEPT !.asked = confirm]
    /\ UNCHANGED <<childCount, tool_table_file, tool_table_loaded, edits>>

\* ------------------------------------------------------ cell edits
\* ToolItem.child(row) of rootItem with count children: the first child
\* for a negative row, the last one for a row beyond count, None otherwise;
\* childItems[0] and childItems[-1] raise IndexError on an empty list.
Child(row, count) ==
    IF row < 0 THEN (IF count = 0 THEN "IndexError" ELSE "item")
    ELSE IF row > count THEN (IF count = 0 THEN "IndexError" ELSE "item")
    ELSE "none"

\* ToolModel.index(row, column, QModelIndex()): "valid" when hasIndex()
\* holds and rootItem.child(row) is an item, "invalid" otherwise, and
\* "IndexError" when child() raises.
Index(list, count, row, column) ==
    IF ~(row \in 0..(Len(list) - 1) /\ column \in 0..(ColumnCount - 1))
    THEN "invalid"
    ELSE IF Child(row, count) = "item" THEN "valid"
    ELSE IF Child(row, count) = "none" THEN "invalid"
    ELSE "IndexError"

Ok(value) == [raised |-> "none", value |-> value]
Raise(exception) == [raised |-> exception, value |-> None]

\* Python's int(), float() and str() of a cell value.  Text 2 stands for
\* the text of a value that is not a str.
PyInt(x) ==
    IF x.k = "int" THEN Ok(x)
    ELSE IF x.k = "float"
    THEN Ok(IntV(IF x.v >= 0 THEN x.v \div FloatUnit
                 ELSE -((-x.v) \div FloatUnit)))
    ELSE IF x.k = "str" THEN Raise("ValueError")
    ELSE Raise("TypeError")
PyFloat(x) ==
    IF x.k = "int" THEN Ok(FloatV(x.v * FloatUnit))
    ELSE IF x.k = "float" THEN Ok(x)
    ELSE IF x.k = "str" THEN Raise("ValueError")
    ELSE Raise("TypeError")
PyStr(x) == IF x.k = "str" THEN Ok(x) ELSE Ok(StrV(2))

\* _data(item, column, Qt.EditRole)
EditData(item, column) ==
    IF column \in {0, 1} THEN PyInt(item[column + 1])
    ELSE IF column \in {2, 3, 4} THEN PyFloat(item[column + 1])
    ELSE PyStr(item[column + 1])

\* _data(item, column, Qt.DisplayRole): the cell as stored, and nothing for
\* a column beyond the sixth.
DisplayData(item, column) ==
    IF column \in 0..5 THEN item[column + 1] ELSE None

\* ToolModel.data(index) with index.row() = row and index.column() = column:
\* _data(tool_list[row], column, Qt.DisplayRole); tool_list[row] raises
\* IndexError outside the list and counts a negative row from the end.
Data(list, row, column) ==
    IF ListPopFails(list, row) THEN Raise("IndexError")
    ELSE Ok(DisplayData(list[ListPopIndex(list, row) + 1], column))

\* ItemDelegate.createEditor(): a QSpinBox 0..100 for columns 0 and 1, a
\* QDoubleSpinBox with 4 decimals and minimum 0 (its maximum stays Qt's
\* default 99.99) for columns 2 and 3, a QLineEdit for column 4, and no
\* editor for any other column.  A new editor shows 0, 0.0 or "".
NoEditor == [widget |-> "none", min |-> 0, max |-> 0, value |-> None]

\* createEditor() with a QSpinBox whose maximum was set to 1000.
CreateEditorWide(column) ==
    IF column \in {0, 1}
    THEN [widget |-> "QSpinBox", min |-> 0, max |-> 1000, value |-> IntV(0)]
    ELSE IF column \in {2, 3}
    THEN [widget |-> "QDoubleSpinBox", min |-> 0, max |-> 999900,
          value |-> FloatV(0)]
    ELSE IF column = 4
    THEN [widget |-> "QLineEdit", min |-> 0, max |-> 0, value |-> StrV(0)]
    ELSE NoEditor

CreateEditor(column) ==
    IF column \in {0, 1}
    THEN [widget |-> "QSpinBox", min |-> 0, max |-> 100, value |-> IntV(0)]
    ELSE IF column \in {2, 3}
    THEN [widget |-> "QDoubleSpinBox", min |-> 0, max |-> 999900,
          value |-> FloatV(0)]
    ELSE IF column = 4
    THEN [widget |-> "QLineEdit", min |-> 0, max |-> 0, value |-> StrV(0)]
    ELSE NoEditor

\* QSpinBox / QDoubleSpinBox.setValue(): the value is bounded to min..max.
Bounded(editor, n) ==
    IF n < editor.min THEN editor.min
    ELSE IF n > editor.max THEN editor.max ELSE n

\* ItemDelegate.setEditorData(): setValue(value) for columns 0-3, setText(
\* value) otherwise.  got is the value the model's data() answered under
\* Qt.EditRole (None for an invalid index).  setValue and setText raise
\* TypeError on a value of another type; the editor then keeps what it shows.
SetEditorData(editor, column, got) ==
    IF got.raised # "none" THEN [raised |-> got.raised, editor |-> editor]
    ELSE IF column \in {0, 1, 2, 3}
    THEN IF editor.widget = "QSpinBox" /\ got.value.k = "int"
         THEN [raised |-> "none",
               editor |-> [editor EXCEPT
                              !.value = IntV(Bounded(editor, got.value.v))]]
         ELSE IF editor.widget = "QDoubleSpinBox" /\ got.value.k = "float"
         THEN [raised |-> "none",
               editor |-> [editor EXCEPT
                              !.value = FloatV(Bounded(editor, got.value.v))]]
         ELSE [raised |-> "TypeError", editor |-> editor]
    ELSE IF got.value.k = "str"
         THEN [raised |-> "none",
               editor |-> [editor EXCEPT !.value = got.value]]
         ELSE [raised |-> "TypeError", editor |-> editor]

\* What the user types into the editor: a spin box takes a number inside
\* min..max and keeps its value on any other, a line edit takes any text.
Typed(editor, typed) ==
    IF editor.widget = "QSpinBox"
    THEN (IF typed \in editor.min..editor.max THEN IntV(typed) ELSE editor.value)
    ELSE IF editor.widget = "QDoubleSpinBox"
    THEN (IF typed \in editor.min..editor.max THEN FloatV(typed)
          ELSE editor.value)
    ELSE StrV(typed)

\* The texts and numbers typed: 50 and 150 into a QSpinBox, -0.1 and
\* 1.2346 into a QDoubleSpinBox, a word into a QLineEdit.
TypedInputs(column) ==
    IF column \in {0, 1} THEN {50, 150}
    ELSE IF column \in {2, 3} THEN {-1000, 12346}
    ELSE {1}

\* What was typed, as a value of the editor's type.
TypedValue(column, typed) ==
    IF column \in {0, 1} THEN IntV(typed)
    ELSE IF column \in {2, 3} THEN FloatV(typed)
    ELSE StrV(typed)

\* The columns edited: one for each answer of createEditor().
EditColumns == {0, 3, 4, 5}

\* ItemDelegate.setModelData(): item.value() for columns 0-3, item.text()
\* otherwise.
SetModelDataValue(editor, column) == editor.value

\* ToolModel.setData(): tool_list[index.row()][index.column()] = value
SetDataList(list, row, column, value) ==
    [list EXCEPT ![row + 1][column + 1] = value]

\* One edit of the cell (row, column) in the view: createEditor(),
\* setEditorData(), the user's typing, setModelData().  The view's model is
\* the proxy, which reaches ToolModel through ToolModel.index(): for an
\* invalid source index data() answers nothing and setData() stores nothing.
EditCell(row, column, typed) ==
    /\ Idle
    /\ tool_table_loaded
    /\ edits < MaxEdits
    /\ row \in 0..(Len(tool_list) - 1)
    /\ CreateEditor(column).widget # "none"
    /\ typed \in TypedInputs(column)
    /\ LET index == Index(tool_list, childCount, row, column)
           got == IF index = "valid"
                  THEN EditData(tool_list[row + 1], column)
                  ELSE Ok(None)
           shown == SetEditorData(CreateEditor(column), column, got)
           editor == [shown.editor EXCEPT !.value = Typed(shown.editor, typed)]
           value == SetModelDataValue(editor, column)
       IN /\ tool_list' = IF index = "valid"
                          THEN SetDataList(tool_list, row, column, value)
                          ELSE tool_list
          /\ err' = IF index = "IndexError" THEN "IndexError" ELSE shown.raised
          /\ last' = Call("editCell", row, column, FALSE, <<>>,
                          TypedValue(column, typed))
    /\ edits' = edits + 1
    /\ pre' = tool_list
    /\ notes' = <<>>
    /\ io' = NoIO
    /\ UNCHANGED <<childCount, tool_table_file, tool_table_loaded>>

\* The values handed to ToolModel.setData() directly.
RawValues(column) == {IntV(150)}

\* A call of ToolModel.setData(index, value, role) on a cell of the table.
SetData(row, column, value) ==
    /\ Idle
    /\ tool_table_loaded
    /\ edits < MaxEdits
    /\ row \in 0..(Len(tool_list) - 1)
    /\ value \in RawValues(column)
    /\ tool_list' = SetDataList(tool_list, row, column, value)
    /\ edits' = edits + 1
    /\ last' = Call("setData", row, column, FALSE, <<>>, value)
    /\ pre' = tool_list
    /\ notes' = <<>>
    /\ err' = "none"
    /\ io' = NoIO
    /\ UNCHANGED <<childCount, tool_table_file, tool_table_loaded>>

\* The call has returned to the event loop: what it was given, emitted and
\* raised is gone, the next slot can run.
Return ==
    /\ ~Idle
    /\ last' = NoCall
    /\ pre' = <<>>
    /\ notes' = <<>>
    /\ err' = "none"
    /\ io' = NoIO
    /\ UNCHANGED <<tool_list, childCount, tool_table_file, tool_table_loaded,
                   edits>>

Next ==
    \/ \E exists \in BOOLEAN, source \in Sources : Construct(exists, source)
    \/ \E row \in {-4, MaxRows - 2}, dir \in {-1, 1} : NewTool(row, dir)
    \/ \E row \in {-(MaxRows + 1), -2, -1, 0, 1, MaxRows} : RemoveTool(row)
    \/ ClearTable
    \/ \E ans \in BOOLEAN, exists \in BOOLEAN, source \in Sources :
          LoadToolTable(ans, exists, source)
    \/ \E ans \in BOOLEAN, outcome \in WriteOutcomes :
          SaveToolTable(ans, outcome)
    \/ \E selected \in -1..(Len(tool_list) - 1) : InsertToolAbove(selected)
    \/ \E selected \in -1..(Len(tool_list) - 1) : InsertToolBelow(selected)
    \/ \E current_row \in -1..(Len(tool_list) - 1), ans \in BOOLEAN :
          DeleteSelectedTool(current_row, ans)
    \/ \E confirm \in BOOLEAN, ans \in BOOLEAN : RemoveAllTools(confirm, ans)
    \/ \E row \in 0..(MaxRows - 1), column \in EditColumns,
          typed \in {-1000, 1, 50, 150, 12346} : EditCell(row, column, typed)
    \/ \E value \in {IntV(150)} : SetData(0, 0, value)
    \/ Return

Spec == Init /\ [][Next]_vars

\* =================================================================
\* Properties
\* =================================================================
Clamp(x, lo, hi) == IF x < lo THEN lo ELSE IF x > hi THEN hi ELSE x

\* list with x put at index i (0 <= i <= Len(list)), the rest in order.
InsertAt(list, i, x) ==
    SubSeq(list, 1, i) \o <<x>> \o SubSeq(list, i + 1, Len(list))

Count(ns, kind) == Cardinality({i \in 1..Len(ns) : ns[i].kind = kind})

NewToolOps == {"newTool", "insertToolAbove", "insertToolBelow"}
LoadOps == {"__init__", "loadToolTable"}

\* C1: for every size n of the table and every requested row (negative, in
\* range or beyond n), newTool raises nothing, the table then has n + 1
\* records, and the new record sits at index clamp(row, 0, n) with the old
\* records around it in their order.
C1_InsertClamped ==
    last.op \in NewToolOps =>
        LET n == Len(pre)
            target == Clamp(last.row + last.arg, 0, n)
        IN /\ err = "none"
           /\ Len(tool_list) = n + 1
           /\ tool_list[target + 1] = last.rec
           /\ tool_list = InsertAt(pre, target, last.rec)

\* C1 witness: newTool was asked for a row beyond the end of a table that
\* holds records, and the new record is the last one.
C1_Witness ==
    /\ last.op = "newTool"
    /\ Len(pre) >= 1
    /\ last.row + last.arg > Len(pre)
    /\ tool_list[Len(pre) + 1] = last.rec

\* C2: insert-above a reference row ref puts the new record at index
\* clamp(ref), insert-below at index clamp(ref + 1).
C2_AboveBelow ==
    /\ last.op = "insertToolAbove" =>
          tool_list = InsertAt(pre, Clamp(last.row, 0, Len(pre)), last.rec)
    /\ last.op = "insertToolBelow" =>
          tool_list = InsertAt(pre, Clamp(last.row + 1, 0, Len(pre)), last.rec)

\* C3: removeTool(row) with row outside [0, size), negative rows included,
\* fails with an IndexError, removes nothing and emits no RowsRemoved.
C3_RemoveOutOfRange ==
    (last.op = "removeTool" /\ last.row \notin 0..(Len(pre) - 1)) =>
        /\ err = "IndexError"
        /\ tool_list = pre
        /\ Count(notes, "RowsRemoved") = 0

\* C4: a subscriber attached to the model that counts rows from the
\* notifications alone (RowsInserted +1, RowsRemoved -1, Reset: re-read
\* the size) and agrees with the table before a call agrees with it after
\* the call; so it agrees after any sequence of calls.
C4_SubscriberAgrees ==
    (~Idle /\ last.op # "__init__") =>
        Track(Len(pre), notes) = Len(tool_list)

\* C5: cmd.load_tool_table() is invoked by a save only after the plugin
\* has written the table in that save.
C5_ApplyOnlyAfterWrite == io.apply => io.write = "ok"

WellTyped(rec) ==
    /\ Len(rec) = ColumnCount
    /\ \A column \in 0..(ColumnCount - 1) : rec[column + 1].k = KindOf(column)

C7_RecordsWellTyped ==
    \A i \in 1..Len(tool_list) : WellTyped(tool_list[i])

\* C8: a confirmed save builds, for every row, a mapping that has a key for
\* a column exactly when the column's value is neither None nor "", with
\* that value, over all six columns; and it builds it for every table.
SavedKeys == <<"T", "P", "Z", "D", "R", "comment">>

C8_SaveSparse ==
    (last.op = "saveToolTable" /\ last.ans) =>
        /\ err # "IndexError"
        /\ io.built
        /\ Len(io.table) = Len(tool_list)
        /\ \A i \in 1..Len(tool_list), column \in 1..ColumnCount :
              LET item == tool_list[i][column]
                  key == SavedKeys[column]
              IN IF item = None \/ item = StrV(0)
                 THEN key \notin DOMAIN io.table[i]
                 ELSE key \in DOMAIN io.table[i] /\ io.table[i][key] = item

\* C9: clearing the table, by clearTable() or by a removeAllTools() that
\* runs, empties it with exactly one Reset and no RowsRemoved.
C9_ClearOneReset ==
    (\/ last.op = "clearTable"
     \/ (last.op = "removeAllTools" /\ (last.arg = 0 \/ last.ans))) =>
        /\ tool_list = <<>>
        /\ Count(notes, "Reset") = 1
        /\ Count(notes, "RowsRemoved") = 0

\* C10: a load that finds no backing data (no tool table file set, or the
\* file missing) leaves the records as they were and emits no notification.
C10_LoadUnavailable ==
    (/\ last.op \in LoadOps
     /\ (tool_table_file = "none" \/ last.arg = 0)) =>
        tool_list = pre /\ notes = <<>>

\* C10 witness: a confirmed re-load of a table that holds records found
\* the file missing.
C10_Witness ==
    /\ last.op = "loadToolTable"
    /\ last.ans
    /\ tool_table_file = "path"
    /\ last.arg = 0
    /\ pre # <<>>
    /\ tool_list = pre

\* The notifications of one kind among ns, in order.
OfKind(ns, kind) == SelectSeq(ns, LAMBDA n : n.kind = kind)

\* C11: newTool emits, before it returns, exactly one RowsInserted, and it
\* names the single index at which the new record is stored, for every
\* requested row, rows beyond the end of the table included.
C11_InsertedRange ==
    last.op \in NewToolOps =>
        LET stored == Clamp(last.row + last.arg, 0, Len(pre))
            inserted == OfKind(notes, "RowsInserted")
        IN /\ Len(inserted) = 1
           /\ inserted[1].first = stored
           /\ inserted[1].last = stored

\* C12: a confirmed save, whether the plugin writes the table, fails to or
\* raises, leaves the records of the table as they were, in number, order
\* and cell values; a save repeated at once would build the same table.
C12_SaveKeepsTable ==
    (last.op = "saveToolTable" /\ last.ans) =>
        /\ tool_list = pre
        /\ io.built => io.table = SaveRows(tool_list, 0, <<>>).table

\* C12 witness: a confirmed save of a table that holds records, which the
\* plugin failed to write.
C12_Witness ==
    /\ last.op = "saveToolTable"
    /\ last.ans
    /\ io.write = "failed"
    /\ pre # <<>>
    /\ tool_list = pre

\* A load call whose inputs let it reach load_tool_table(): it was not
\* declined, a file is configured and the file exists.
LoadReached ==
    /\ last.op \in LoadOps
    /\ io.asked => last.ans
    /\ tool_table_file # "none"
    /\ last.arg = 1

\* C13: after a load that replaces the table from the rows X the source
\* yields, the table holds exactly X, row by row and in the same order,
\* whatever it held before.
C13_LoadReplaces ==
    LoadReached =>
        /\ Len(tool_list) = Len(last.rec)
        /\ \A i \in 1..Len(last.rec) : tool_list[i] = last.rec[i]

\* C13 witness: a re-load over a table that held records other than the
\* source's.
C13_Witness ==
    /\ LoadReached
    /\ pre # <<>>
    /\ pre # last.rec
    /\ Len(pre) # Len(last.rec)
    /\ tool_list = last.rec

\* A call that reached removeTool(row) with a row of the table: removeTool
\* itself, or a confirmed deleteSelectedTool.
RemoveReached ==
    /\ \/ last.op = "removeTool"
       \/ last.op = "deleteSelectedTool" /\ last.ans
    /\ last.row \in 0..(Len(pre) - 1)

\* C14: removing a row of the table makes the table one record shorter,
\* leaves the rows before it as they were and moves every later record up
\* by one row, so that only the record at that row is gone.
C14_RemoveShifts ==
    RemoveReached =>
        /\ err = "none"
        /\ Len(tool_list) = Len(pre) - 1
        /\ \A i \in 0..(last.row - 1) : tool_list[i + 1] = pre[i + 1]
        /\ \A i \in (last.row + 1)..(Len(pre) - 1) : tool_list[i] = pre[i + 1]

\* C14 witness: removeTool took the middle row out of three different
\* records.
C14_Witness ==
    /\ last.op = "removeTool"
    /\ last.row = 1
    /\ Len(pre) = 3
    /\ pre[1] # pre[2]
    /\ pre[2] # pre[3]
    /\ tool_list = <<pre[1], pre[3]>>

\* C15: right after newTool has inserted a record at a row between 0 and
\* the size of the table, data() of that row answers the cells of that
\* record, column by column.
C15_GetAfterInsert ==
    (last.op \in NewToolOps /\ last.row + last.arg \in 0..Len(pre)) =>
        \A column \in 0..(ColumnCount - 1) :
            Data(tool_list, last.row + last.arg, column)
                = Ok(last.rec[column + 1])

\* C15 witness: a record inserted before the end of the table, at a row
\* that held a different record.
C15_Witness ==
    /\ last.op \in NewToolOps
    /\ last.row + last.arg \in 0..(Len(pre) - 1)
    /\ pre[last.row + last.arg + 1] # last.rec
    /\ Data(tool_list, last.row + last.arg, 0) = Ok(last.rec[1])
    /\ Data(tool_list, last.row + last.arg + 1, 0)
           = Ok(pre[last.row + last.arg + 1][1])

\* The slots that put a confirmation dialog before their work, and the
\* construction, which calls the first of them.
DialogOps ==
    {"__init__", "loadToolTable", "saveToolTable", "deleteSelectedTool",
     "removeAllTools"}

\* The last call asked and the user answered No.
Declined == io.asked /\ ~last.ans

\* The last call changed the table, emitted a notification or got as far as
\* building the table to write.
Acted == tool_list # pre \/ notes # <<>> \/ io.built

\* A declined dialog leaves the table as it was, emits no notification and
\* reaches neither write() nor apply().
DeclinedNoEffect ==
    Declined =>
        /\ tool_list = pre
        /\ notes = <<>>
        /\ err = "none"
        /\ ~io.built
        /\ io.write = "not_called"
        /\ ~io.apply

\* C16: a declined re-load, delete-selected or remove-all leaves the table
\* unchanged and emits no notification, a declined save neither writes nor
\* applies, and of these actions only the load at construction acts
\* without having asked.
C16_OnlyConstructionUnasked ==
    /\ DeclinedNoEffect
    /\ (last.op \in DialogOps /\ Acted /\ ~io.asked) => last.op = "__init__"

\* C16, amended: a declined dialog has no effect, and the only actions that
\* act without having asked are the load at construction and a
\* removeAllTools called with confirm = False.
C16_DeclinedNoEffect ==
    /\ DeclinedNoEffect
    /\ (last.op \in DialogOps /\ Acted /\ ~io.asked) =>
          \/ last.op = "__init__"
          \/ last.op = "removeAllTools" /\ last.arg = 0

\* C16 witness: the user declined to re-load over a table that holds
\* records, with a file that exists.
C16_Witness ==
    /\ last.op = "loadToolTable"
    /\ Declined
    /\ tool_table_file = "path"
    /\ last.arg = 1
    /\ childCount < MaxLoads
    /\ pre # <<>>
    /\ tool_list = pre

\* C17: deleteSelectedTool with no row selected (selectedRow() = -1) asks
\* nothing, removes nothing and emits no notification; with a row selected
\* and the dialog confirmed, the table afterwards is the table before
\* without that row, and no other row is touched.
C17_DeleteSelected ==
    last.op = "deleteSelectedTool" =>
        /\ last.row = -1 =>
              /\ ~io.asked
              /\ tool_list = pre
              /\ notes = <<>>
              /\ err = "none"
        /\ (last.row \in 0..(Len(pre) - 1) /\ last.ans) =>
              /\ io.asked
              /\ Len(tool_list) = Len(pre) - 1
              /\ InsertAt(tool_list, last.row, pre[last.row + 1]) = pre
              /\ OfKind(notes, "RowsRemoved")
                    = <<Note("RowsRemoved", last.row, last.row, Len(tool_list))>>

\* C17 witness: deleteSelectedTool on a table that holds records, with no
\* row selected and a user who would have answered Yes.
C17_Witness ==
    /\ last.op = "deleteSelectedTool"
    /\ last.row = -1
    /\ last.ans
    /\ pre # <<>>
    /\ tool_list = pre
    /\ ~io.asked

\* A removeAllTools call that reached its loop: confirm was False, or the
\* user answered Yes.
RemoveAllReached ==
    last.op = "removeAllTools" /\ (last.arg = 0 \/ last.ans)

\* C18: a remove-all that goes ahead on a table of N rows ends without an
\* exception and with an empty table, and the rows it hands to removeTool
\* are N-1, N-2, .., 0, each one a row of the table as it is at that
\* removal.
C18_RemoveAllEmpties ==
    RemoveAllReached =>
        LET about == OfKind(notes, "RowsAboutToBeRemoved")
        IN /\ tool_list = <<>>
           /\ err = "none"
           /\ Len(about) = Len(pre)
           /\ Len(OfKind(notes, "RowsRemoved")) = Len(pre)
           /\ \A k \in 1..Len(about) :
                 /\ about[k].first = Len(pre) - k
                 /\ about[k].last = about[k].first
                 /\ about[k].first \in 0..(about[k].size - 1)

\* C18 witness: a confirmed remove-all of a full table.
C18_Witness ==
    /\ last.op = "removeAllTools"
    /\ last.arg = 1
    /\ last.ans
    /\ Len(pre) = MaxRows
    /\ tool_list = <<>>
    /\ Len(OfKind(notes, "RowsRemoved")) = MaxRows
====
